---- MODULE Spec2Model ----
(***************************************************************************)
(* Copilot Chat language-model provider                                    *)
(* (crates/language_model/src/provider/copilot_chat.rs).                   *)
(*                                                                         *)
(* The model has four parts:                                               *)
(*   - the credential store (State.oauth_token, State.api_key) with the    *)
(*     operations that touch it: the CopilotChat observer, the completion  *)
(*     calls with their token refreshes, and reset_credentials;            *)
(*   - the synchronous head of stream_completion (validation, translation, *)
(*     the read of the store);                                             *)
(*   - the adapter that maps the response stream to text deltas;           *)
(*   - the queries of the provider facade (authenticate, is_authenticated, *)
(*     provided_models).                                                   *)
(*                                                                         *)
(* An Option<T> is a sequence of length at most one: None is <<>> and      *)
(* Some(x) is <<x>>.  A String is a sequence of characters.                *)
(***************************************************************************)
EXTENDS Integers, Sequences, FiniteSets, TLC

VARIABLES
    oauth_token,        \* State.oauth_token : Option<String>
    api_key,            \* State.api_key : Option<(String, NaiveDateTime)>
    now,                \* Utc::now(), in minutes
    calls,              \* the stream_completion calls made so far, in call order
    issued,             \* number of keys the token endpoint has handed out
    reset,              \* the reset_credentials task
    crashed,            \* a panic has taken the application down
    wire,               \* frames received on the completion connection so far
    stream_open,        \* the response stream has not ended
    output,             \* the elements the returned stream has yielded so far
    facade              \* the last query of the provider facade and what it returned

vars == <<oauth_token, api_key, now, calls, issued, reset, crashed, wire, stream_open, output, facade>>

storeVars == <<oauth_token, api_key>>
streamVars == <<wire, stream_open, output>>
providerVars == <<oauth_token, api_key, now, calls, issued, reset>>

----------------------------------------------------------------------------
(* Bounds of the model *)

MaxCalls == 2
MaxTime == 1
MaxMsgs == 2
MaxContentLen == 1
MaxFrames == 3

(* TimeDelta::minutes(5) *)
FiveMinutes == 5

----------------------------------------------------------------------------
(* Option<T> *)

None == <<>>
Some(x) == <<x>>
IsSome(o) == Len(o) = 1
IsNone(o) == Len(o) = 0
Unwrap(o) == o[1]
OptionOf(S) == {None} \cup {Some(x) : x \in S}

SeqsUpTo(S, n) == UNION {[1..k -> S] : k \in 0..n}

----------------------------------------------------------------------------
(* Requests *)

Roles == {"User", "Assistant", "System"}
Chars == {" ", "a"}
Contents == SeqsUpTo(Chars, MaxContentLen)
Messages == [role : Roles, content : Contents]
Requests == SeqsUpTo(Messages, MaxMsgs)

Msg(r, c) == [role |-> r, content |-> c]

(* The requests the concurrent specification draws from: one of each kind    *)
(* the validation distinguishes.                                             *)
SampleRequests ==
    { <<>>,
      <<Msg("System", <<"a">>), Msg("User", <<"a">>)>>,
      <<Msg("User", <<" ">>)>>,
      <<Msg("User", <<"a">>), Msg("Assistant", <<"a">>)>> }

(* A conversation longer than MaxMsgs, with every role in it. *)
ExampleRequest ==
    <<Msg("User", <<"a">>), Msg("Assistant", <<>>),
      Msg("System", <<" ">>), Msg("User", <<"a">>)>>

IsWhitespace(ch) == ch = " "

RECURSIVE TrimStart(_)
TrimStart(s) ==
    IF s = <<>> THEN <<>>
    ELSE IF IsWhitespace(Head(s)) THEN TrimStart(Tail(s))
    ELSE s

RECURSIVE TrimEnd(_)
TrimEnd(s) ==
    IF s = <<>> THEN <<>>
    ELSE IF IsWhitespace(s[Len(s)]) THEN TrimEnd(SubSeq(s, 1, Len(s) - 1))
    ELSE s

(* str::trim *)
Trim(s) == TrimEnd(TrimStart(s))

(* request.messages.last() *)
LastMessage(messages) ==
    IF messages = <<>> THEN None ELSE Some(messages[Len(messages)])

ValidateRoleFirst(messages) ==
    LET last == LastMessage(messages) IN
    IF IsNone(last) THEN "Ok"
    ELSE IF Unwrap(last).role # "User" THEN "LastMessageMustBeUser"
    ELSE IF Trim(Unwrap(last).content) = <<>> THEN "EmptyPrompt"
    ELSE "Ok"

(* The two early returns of stream_completion. *)
Validate(messages) ==
    LET last == LastMessage(messages) IN
    IF IsNone(last) THEN "Ok"
    ELSE IF Trim(Unwrap(last).content) = <<>> THEN "EmptyPrompt"
    ELSE IF Unwrap(last).role # "User" THEN "LastMessageMustBeUser"
    ELSE "Ok"

----------------------------------------------------------------------------
(* The credential store *)

Tokens == {"gho_token"}
Lifetimes == {FiveMinutes - 1, FiveMinutes + 1}

Key(v, e) == [value |-> v, expires_at |-> e]

(* is_authenticated *)
IsAuthenticated == IsSome(oauth_token)

NeedsRefreshAtThreshold(key, t) ==
    \/ IsNone(key)
    \/ Unwrap(key).expires_at - t <= FiveMinutes

(* The match on the api_key snapshot in the spawned task. *)
NeedsRefresh(key, t) ==
    \/ IsNone(key)
    \/ Unwrap(key).expires_at - t < FiveMinutes

(* The role of a message on the wire. *)
ToCopilotChatRole(role) ==
    CASE role = "User"      -> "CopilotChatRole::User"
      [] role = "Assistant" -> "CopilotChatRole::Assistant"
      [] role = "System"    -> "CopilotChatRole::System"

ChatMessage(r, c) == [role |-> r, content |-> c]

ToCopilotChatRequestReversed(messages) ==
    [i \in DOMAIN messages |->
        ChatMessage(ToCopilotChatRole(messages[Len(messages) + 1 - i].role),
                    messages[Len(messages) + 1 - i].content)]

(* to_copilot_chat_request: the messages handed to CopilotChatRequest::new. *)
ToCopilotChatRequest(messages) ==
    [i \in DOMAIN messages |->
        ChatMessage(ToCopilotChatRole(messages[i].role), messages[i].content)]

NewCall(req) ==
    [ request      |-> req,
      pc           |-> "returned",
      result       |-> "Pending",
      oauth_token  |-> None,
      api_key      |-> None,
      wire_request |-> None,
      bearer       |-> None,
      token_calls  |-> 0,
      stream_calls |-> 0,
      stages       |-> <<"validate">> ]

(* What a query of the facade leaves behind: the operation, the status of   *)
(* the Copilot global it read (if it read one), and what it returned.       *)
Query(op, status, result, models) ==
    [op |-> op, status |-> status, result |-> result, models |-> models]

NoQuery == Query("none", "NotRead", "None", <<>>)

(* CopilotChatLanguageModelProvider::new *)
InitProvider ==
    /\ oauth_token \in OptionOf(Tokens)
    /\ api_key = None
    /\ now = 0
    /\ calls = <<>>
    /\ issued = 0
    /\ reset = [pc |-> "idle", result |-> "None"]
    /\ crashed = FALSE
    /\ facade = NoQuery

Init ==
    /\ InitProvider
    /\ wire = <<>>
    /\ stream_open = FALSE
    /\ output = <<>>

(* The observer of the CopilotChat global. *)
ChatTokenPush(tok) ==
    /\ ~crashed
    /\ tok # oauth_token
    /\ oauth_token' = tok
    /\ UNCHANGED <<api_key, now, calls, issued, reset, crashed>>
    /\ UNCHANGED <<streamVars, facade>>

Tick ==
    /\ ~crashed
    /\ now < MaxTime
    /\ now' = now + 1
    /\ UNCHANGED <<oauth_token, api_key, calls, issued, reset, crashed>>
    /\ UNCHANGED <<streamVars, facade>>

----------------------------------------------------------------------------
(* stream_completion *)

SetCall(c, r) == calls' = [calls EXCEPT ![c] = r]

(* The synchronous head of stream_completion: the two validations, the       *)
(* translation of the request, the read of the store (whose unwrap of an     *)
(* absent oauth_token panics) and the spawn of the task.                     *)
StreamCompletion(req) ==
    /\ ~crashed
    /\ Len(calls) < MaxCalls
    /\ LET v == Validate(req) IN
       IF v # "Ok"
       THEN /\ calls' = Append(calls,
                   [NewCall(req) EXCEPT !.pc = "done", !.result = v])
            /\ UNCHANGED crashed
       ELSE IF IsNone(oauth_token)
       THEN /\ calls' = Append(calls,
                   [NewCall(req) EXCEPT
                       !.pc = "done", !.result = "Panic",
                       !.wire_request = Some(ToCopilotChatRequest(req)),
                       !.stages = <<"validate", "translate", "read_store">>])
            /\ crashed' = TRUE
       ELSE /\ calls' = Append(calls,
                   [NewCall(req) EXCEPT
                       !.pc = "spawned",
                       !.oauth_token = oauth_token,
                       !.api_key = api_key,
                       !.wire_request = Some(ToCopilotChatRequest(req)),
                       !.stages = <<"validate", "translate", "read_store">>])
            /\ UNCHANGED crashed
    /\ UNCHANGED <<oauth_token, api_key, now, issued, reset>>
    /\ UNCHANGED <<streamVars, facade>>

(* First poll of the spawned task: the match on the api_key snapshot, then   *)
(* either the token request or the completion request goes out.  The match   *)
(* consumes the snapshot; the task keeps the key it goes on with.            *)
CheckKey(c) ==
    /\ ~crashed
    /\ calls[c].pc = "spawned"
    /\ IF NeedsRefresh(calls[c].api_key, now)
       THEN SetCall(c, [calls[c] EXCEPT
                !.pc = "refreshing",
                !.oauth_token = None,
                !.api_key = None,
                !.token_calls = @ + 1,
                !.stages = Append(@, "token_call")])
       ELSE SetCall(c, [calls[c] EXCEPT
                !.pc = "requesting",
                !.oauth_token = None,
                !.api_key = None,
                !.bearer = Some(Unwrap(calls[c].api_key).value),
                !.stream_calls = @ + 1,
                !.stages = Append(@, "stream_call")])
    /\ UNCHANGED <<oauth_token, api_key, now, issued, reset, crashed>>
    /\ UNCHANGED <<streamVars, facade>>

RefreshOkSharesKey(c, life) ==
    /\ ~crashed
    /\ calls[c].pc = "refreshing"
    /\ LET k == Key(issued + 1, now + life)
           shared == ~NeedsRefresh(api_key, now)
       IN
       /\ issued' = issued + 1
       /\ api_key' = IF shared THEN api_key ELSE Some(k)
       /\ SetCall(c, [calls[c] EXCEPT
              !.pc = "requesting",
              !.bearer = IF shared THEN Some(Unwrap(api_key).value)
                         ELSE Some(k.value),
              !.stream_calls = @ + 1,
              !.stages = @ \o <<"store_key", "stream_call">>])
    /\ UNCHANGED <<oauth_token, now, reset, crashed>>
    /\ UNCHANGED <<streamVars, facade>>

RefreshOkNoStore(c, life) ==
    /\ ~crashed
    /\ calls[c].pc = "refreshing"
    /\ LET k == Key(issued + 1, now + life) IN
       /\ issued' = issued + 1
       /\ UNCHANGED api_key
       /\ SetCall(c, [calls[c] EXCEPT
              !.pc = "requesting",
              !.bearer = Some(k.value),
              !.stream_calls = @ + 1,
              !.stages = @ \o <<"stream_call">>])
    /\ UNCHANGED <<oauth_token, now, reset, crashed>>
    /\ UNCHANGED <<streamVars, facade>>

(* get_new_api_token, the token endpoint answered: the pair is stored, the   *)
(* key is returned and the completion request goes out with it.              *)
RefreshOk(c, life) ==
    /\ ~crashed
    /\ calls[c].pc = "refreshing"
    /\ LET k == Key(issued + 1, now + life) IN
       /\ issued' = issued + 1
       /\ api_key' = Some(k)
       /\ SetCall(c, [calls[c] EXCEPT
              !.pc = "requesting",
              !.bearer = Some(k.value),
              !.stream_calls = @ + 1,
              !.stages = @ \o <<"store_key", "stream_call">>])
    /\ UNCHANGED <<oauth_token, now, reset, crashed>>
    /\ UNCHANGED <<streamVars, facade>>

RefreshFailEvicts(c) ==
    /\ ~crashed
    /\ calls[c].pc = "refreshing"
    /\ api_key' = None
    /\ SetCall(c, [calls[c] EXCEPT !.pc = "done", !.result = "RefreshFailed"])
    /\ UNCHANGED <<oauth_token, now, issued, reset,
                   crashed>>
    /\ UNCHANGED <<streamVars, facade>>

RefreshFailStreamsAnyway(c) ==
    /\ ~crashed
    /\ calls[c].pc = "refreshing"
    /\ SetCall(c, [calls[c] EXCEPT
           !.pc = "done",
           !.result = "RefreshFailed",
           !.stream_calls = @ + 1,
           !.stages = Append(@, "stream_call")])
    /\ UNCHANGED <<oauth_token, api_key, now, issued, reset, crashed>>
    /\ UNCHANGED <<streamVars, facade>>

RefreshFailRetries(c) ==
    /\ ~crashed
    /\ calls[c].pc = "refreshing"
    /\ SetCall(c, IF calls[c].token_calls < 2
                  THEN [calls[c] EXCEPT !.token_calls = @ + 1]
                  ELSE [calls[c] EXCEPT !.pc = "done", !.result = "RefreshFailed"])
    /\ UNCHANGED <<oauth_token, api_key, now, issued, reset, crashed>>
    /\ UNCHANGED <<streamVars, facade>>

(* get_new_api_token, request_api_token failed: the error is propagated.     *)
RefreshFail(c) ==
    /\ ~crashed
    /\ calls[c].pc = "refreshing"
    /\ SetCall(c, [calls[c] EXCEPT !.pc = "done", !.result = "RefreshFailed"])
    /\ UNCHANGED <<oauth_token, api_key, now, issued, reset, crashed>>
    /\ UNCHANGED <<streamVars, facade>>

(* The completion endpoint answered: the adapted stream is returned.         *)
StreamOk(c) ==
    /\ ~crashed
    /\ calls[c].pc = "requesting"
    /\ SetCall(c, [calls[c] EXCEPT !.pc = "done", !.result = "Stream"])
    /\ UNCHANGED <<oauth_token, api_key, now, issued, reset, crashed>>
    /\ UNCHANGED <<streamVars, facade>>

(* The completion request failed: the error is propagated.                   *)
StreamFail(c) ==
    /\ ~crashed
    /\ calls[c].pc = "requesting"
    /\ SetCall(c, [calls[c] EXCEPT !.pc = "done", !.result = "StreamFailed"])
    /\ UNCHANGED <<oauth_token, api_key, now, issued, reset, crashed>>
    /\ UNCHANGED <<streamVars, facade>>

CancelClearsKey(c) ==
    /\ ~crashed
    /\ calls[c].pc \in {"spawned", "refreshing", "requesting"}
    /\ api_key' = IF calls[c].pc = "refreshing" THEN None ELSE api_key
    /\ SetCall(c, [calls[c] EXCEPT
           !.pc = "done", !.result = "Cancelled",
           !.oauth_token = None, !.api_key = None])
    /\ UNCHANGED <<oauth_token, now, issued, reset, crashed>>
    /\ UNCHANGED <<streamVars, facade>>

(* The caller drops the future of a call whose task is suspended (not yet    *)
(* polled, awaiting the token endpoint, awaiting the completion endpoint):   *)
(* the task and what it holds are dropped, nothing else runs.                *)
Cancel(c) ==
    /\ ~crashed
    /\ calls[c].pc \in {"spawned", "refreshing", "requesting"}
    /\ SetCall(c, [calls[c] EXCEPT
           !.pc = "done", !.result = "Cancelled",
           !.oauth_token = None, !.api_key = None])
    /\ UNCHANGED <<oauth_token, api_key, now, issued, reset, crashed>>
    /\ UNCHANGED <<streamVars, facade>>

----------------------------------------------------------------------------
(* reset_credentials *)

(* The synchronous head: the check of the Copilot global (whether it is set  *)
(* is the input copilot_global), then the spawn.                             *)
ResetCredentials(copilot_global) ==
    /\ ~crashed
    /\ reset.pc = "idle"
    /\ reset' = IF copilot_global
                THEN [pc |-> "signing_out", result |-> "Pending"]
                ELSE [pc |-> "idle", result |-> "Unavailable"]
    /\ UNCHANGED <<oauth_token, api_key, now, calls, issued, crashed>>
    /\ UNCHANGED <<streamVars, facade>>

(* sign_out succeeded: both fields of the store are cleared.                 *)
SignOutOk ==
    /\ ~crashed
    /\ reset.pc = "signing_out"
    /\ oauth_token' = None
    /\ api_key' = None
    /\ reset' = [pc |-> "idle", result |-> "Ok"]
    /\ UNCHANGED <<now, calls, issued, crashed>>
    /\ UNCHANGED <<streamVars, facade>>

SignOutFailClears ==
    /\ ~crashed
    /\ reset.pc = "signing_out"
    /\ oauth_token' = None
    /\ api_key' = None
    /\ reset' = [pc |-> "idle", result |-> "SignOutFailed"]
    /\ UNCHANGED <<now, calls, issued, crashed>>
    /\ UNCHANGED <<streamVars, facade>>

(* sign_out failed: the error is propagated before the store is touched.     *)
SignOutFail ==
    /\ ~crashed
    /\ reset.pc = "signing_out"
    /\ reset' = [pc |-> "idle", result |-> "SignOutFailed"]
    /\ UNCHANGED <<oauth_token, api_key, now, calls, issued, crashed>>
    /\ UNCHANGED <<streamVars, facade>>

Next ==
    \/ \E tok \in OptionOf(Tokens) : ChatTokenPush(tok)
    \/ Tick
    \/ \E req \in SampleRequests : StreamCompletion(req)
    \/ \E c \in DOMAIN calls : CheckKey(c)
    \/ \E c \in DOMAIN calls : \E life \in Lifetimes : RefreshOk(c, life)
    \/ \E c \in DOMAIN calls : RefreshFail(c)
    \/ \E c \in DOMAIN calls : StreamOk(c)
    \/ \E c \in DOMAIN calls : StreamFail(c)
    \/ \E c \in DOMAIN calls : Cancel(c)
    \/ \E copilot_global \in BOOLEAN : ResetCredentials(copilot_global)
    \/ SignOutOk
    \/ SignOutFail

Spec == Init /\ [][Next]_vars

----------------------------------------------------------------------------
(* The synchronous head of stream_completion on its own, over every request  *)
(* of the bounded request space: one call into a provider whose token may    *)
(* be present or absent.                                                     *)

FirstCall(req) ==
    /\ calls = <<>>
    /\ StreamCompletion(req)

NextRequest ==
    \/ \E tok \in OptionOf(Tokens) : ChatTokenPush(tok)
    \/ \E req \in Requests \cup {ExampleRequest} : FirstCall(req)

SpecRequest == Init /\ [][NextRequest]_vars

----------------------------------------------------------------------------
(* The response stream and its adapter *)

Deltas == {"a", "b"}
Choices == [content : OptionOf(Deltas)]
ChoiceLists == SeqsUpTo(Choices, 2)

Frame(chs, fin) == [kind |-> "frame", choices |-> chs, finished |-> fin]
TransportError == [kind |-> "error", choices |-> <<>>, finished |-> FALSE]
Text(d) == <<[content |-> Some(d)]>>

(* What the connection can deliver: a frame, or a transport error. *)
WireEvents ==
    {Frame(chs, fin) : chs \in ChoiceLists, fin \in BOOLEAN} \cup {TransportError}

(* copilot::copilot_chat::stream_completion, the response stream handed to   *)
(* the adapter: a frame with no choices and the finished flag set ends the   *)
(* stream and is not handed on; a transport error is handed on and ends it.  *)
UpstreamEnds(ev) ==
    \/ ev.kind = "error"
    \/ ev.kind = "frame" /\ ev.choices = <<>> /\ ev.finished

UpstreamYields(ev) ==
    ~(ev.kind = "frame" /\ ev.choices = <<>> /\ ev.finished)

Ok(d) == [ok |-> TRUE, value |-> d]
Err(e) == [ok |-> FALSE, value |-> e]

(* choice.delta.content.clone().unwrap() on an absent content *)
AdapterPanics(ev) ==
    /\ ev.kind = "frame"
    /\ ev.choices # <<>>
    /\ IsNone(Head(ev.choices).content)

AdaptItemLastChoice(ev) ==
    IF ev.kind = "error" THEN Some(Err("Transport"))
    ELSE IF ev.choices = <<>> THEN Some(Err("NoChoices"))
    ELSE LET last == ev.choices[Len(ev.choices)].content IN
         IF IsSome(last) THEN Some(Ok(Unwrap(last))) ELSE None

AdaptItemSkipsText(ev) ==
    IF ev.kind = "error" THEN Some(Err("Transport"))
    ELSE IF ev.choices = <<>> THEN Some(Err("NoChoices"))
    ELSE None

(* The filter_map closure: the element the stream yields for one item. *)
AdaptItem(ev) ==
    IF ev.kind = "error" THEN Some(Err("Transport"))
    ELSE IF ev.choices = <<>> THEN Some(Err("NoChoices"))
    ELSE Some(Ok(Unwrap(Head(ev.choices).content)))

(* A completion has returned its stream: the stream is open and nothing has  *)
(* been received yet.                                                        *)
InitStream ==
    /\ InitProvider
    /\ IsSome(oauth_token)
    /\ wire = <<>>
    /\ stream_open = TRUE
    /\ output = <<>>

(* One event of the connection, through the response stream and the adapter. *)
Receive(ev) ==
    /\ ~crashed
    /\ stream_open
    /\ Len(wire) < MaxFrames
    /\ wire' = Append(wire, ev)
    /\ stream_open' = ~UpstreamEnds(ev)
    /\ IF ~UpstreamYields(ev)
       THEN UNCHANGED <<output, crashed>>
       ELSE IF AdapterPanics(ev)
       THEN crashed' = TRUE /\ UNCHANGED output
       ELSE /\ output' = output \o AdaptItem(ev)
            /\ UNCHANGED crashed
    /\ UNCHANGED <<oauth_token, api_key, now, calls, issued, reset, facade>>

(* The connection is closed by the server. *)
EndOfBody ==
    /\ ~crashed
    /\ stream_open
    /\ stream_open' = FALSE
    /\ UNCHANGED <<oauth_token, api_key, now, calls, issued, reset,
                   crashed, wire, output, facade>>

NextStream ==
    \/ \E ev \in WireEvents : Receive(ev)
    \/ EndOfBody

SpecStream == InitStream /\ [][NextStream]_vars

----------------------------------------------------------------------------
(* The queries of the provider facade: authenticate, is_authenticated and    *)
(* provided_models.                                                          *)

(* copilot::Status, as matched by authenticate. *)
Statuses ==
    {"Disabled", "Error", "Starting", "Unauthorized", "Authorized",
     "SignedOut", "SigningIn"}

(* Copilot::global(cx): unset, or the Copilot entity with its status. *)
CopilotGlobals == OptionOf(Statuses)

(* CopilotChatModel::iter() *)
Models == <<"Gpt4", "Gpt3_5Turbo">>

(* What authenticate returns for a token and a Copilot global: Ok when the   *)
(* token is present; otherwise the global is unwrapped (a panic when it is   *)
(* unset) and its status decides.                                            *)
AuthenticateResult(token, copilot) ==
    IF IsSome(token) THEN "Ok"
    ELSE IF IsNone(copilot) THEN "Panic"
    ELSE CASE Unwrap(copilot) = "Disabled"     -> "CopilotMustBeEnabled"
           [] Unwrap(copilot) = "Error"        -> "ErrorWhileSigningIn"
           [] Unwrap(copilot) = "Starting"     -> "CopilotStillStarting"
           [] Unwrap(copilot) = "Unauthorized" -> "UnableToAuthorize"
           [] Unwrap(copilot) = "Authorized"   -> "Ok"
           [] Unwrap(copilot) = "SignedOut"    -> "SignedOutOfCopilot"
           [] Unwrap(copilot) = "SigningIn"    -> "StillSigningIn"

(* authenticate: the Copilot global is read only when the token is absent. *)
Authenticate(copilot) ==
    /\ ~crashed
    /\ LET result == AuthenticateResult(oauth_token, copilot)
           status == IF IsSome(oauth_token) THEN "NotRead"
                     ELSE IF IsNone(copilot) THEN "Unset"
                     ELSE Unwrap(copilot)
       IN /\ facade' = Query("authenticate", status, result, <<>>)
          /\ crashed' = (result = "Panic")
    /\ UNCHANGED <<oauth_token, api_key, now, calls, issued, reset>>
    /\ UNCHANGED streamVars

(* is_authenticated *)
IsAuthenticatedCall ==
    /\ ~crashed
    /\ facade' = Query("is_authenticated", "NotRead",
                       IF IsAuthenticated THEN "true" ELSE "false", <<>>)
    /\ UNCHANGED <<oauth_token, api_key, now, calls, issued, reset, crashed>>
    /\ UNCHANGED streamVars

(* provided_models *)
ProvidedModels ==
    /\ ~crashed
    /\ facade' = Query("provided_models", "NotRead", "None", Models)
    /\ UNCHANGED <<oauth_token, api_key, now, calls, issued, reset, crashed>>
    /\ UNCHANGED streamVars

(* The facade on its own: the queries, the token pushes and                  *)
(* reset_credentials, with no completion call in flight.                     *)
NextFacade ==
    \/ \E tok \in OptionOf(Tokens) : ChatTokenPush(tok)
    \/ \E copilot \in CopilotGlobals : Authenticate(copilot)
    \/ IsAuthenticatedCall
    \/ ProvidedModels
    \/ \E copilot_global \in BOOLEAN : ResetCredentials(copilot_global)
    \/ SignOutOk
    \/ SignOutFail

SpecFacade == Init /\ [][NextFacade]_vars

----------------------------------------------------------------------------
(* One user of the provider: queries of the facade, completion calls made    *)
(* one after the other, reset_credentials, token pushes, and the frames of   *)
(* the stream a completion returned.                                         *)

SessionRequests == {<<Msg("User", <<"a">>)>>, <<Msg("User", <<" ">>)>>}

SessionCopilots == {None, Some("Authorized"), Some("SignedOut")}

SessionEvents == {Frame(Text("a"), FALSE), Frame(<<>>, TRUE), TransportError}

(* stream_completion, called once the call before it has ended. *)
SessionCall(req) ==
    /\ \A c \in DOMAIN calls : calls[c].pc = "done"
    /\ StreamCompletion(req)

(* The caller starts to poll the stream that a completion returned. *)
StreamReturned ==
    /\ ~crashed
    /\ \E c \in DOMAIN calls : calls[c].result = "Stream"
    /\ ~stream_open
    /\ wire = <<>>
    /\ stream_open' = TRUE
    /\ UNCHANGED <<oauth_token, api_key, now, calls, issued, reset, crashed,
                   wire, output, facade>>

NextSession ==
    \/ \E tok \in OptionOf(Tokens) : ChatTokenPush(tok)
    \/ \E req \in SessionRequests : SessionCall(req)
    \/ \E c \in DOMAIN calls : CheckKey(c)
    \/ \E c \in DOMAIN calls : \E life \in Lifetimes : RefreshOk(c, life)
    \/ \E c \in DOMAIN calls : RefreshFail(c)
    \/ \E c \in DOMAIN calls : StreamOk(c)
    \/ \E c \in DOMAIN calls : StreamFail(c)
    \/ \E c \in DOMAIN calls : Cancel(c)
    \/ \E copilot_global \in BOOLEAN : ResetCredentials(copilot_global)
    \/ SignOutOk
    \/ SignOutFail
    \/ \E copilot \in SessionCopilots : Authenticate(copilot)
    \/ IsAuthenticatedCall
    \/ ProvidedModels
    \/ StreamReturned
    \/ \E ev \in SessionEvents : Receive(ev)
    \/ EndOfBody

SpecSession == Init /\ [][NextSession]_vars

----------------------------------------------------------------------------
(* Properties *)

NoNetworkCall(call) == call.token_calls = 0 /\ call.stream_calls = 0

LastIsBlank(messages) ==
    /\ messages # <<>>
    /\ Trim(messages[Len(messages)].content) = <<>>

LastIsNotUser(messages) ==
    /\ messages # <<>>
    /\ messages[Len(messages)].role # "User"

(* ChatRequest as it must be before dispatch: non-empty, last message from   *)
(* the user, last content non-empty after trimming.                          *)
WellFormed(messages) ==
    /\ messages # <<>>
    /\ ~LastIsBlank(messages)
    /\ ~LastIsNotUser(messages)

(* C1: in every reachable state of the credential store, an absent           *)
(* oauth_token implies an absent api_key.                                    *)
C1_AbsentTokenImpliesAbsentKey ==
    IsNone(oauth_token) => IsNone(api_key)

(* C2: when reset_credentials succeeds, is_authenticated is false           *)
(* afterwards, and a stream_completion call with a well-formed request made  *)
(* after a successful reset, while the token is absent, returns              *)
(* NotAuthenticated without any network call.                                *)
C2_NotAuthenticatedAfterReset ==
    [][ /\ (reset.pc = "signing_out" /\ reset'.result = "Ok") => ~IsAuthenticated'
        /\ ( /\ reset.result = "Ok"
             /\ ~IsAuthenticated
             /\ Len(calls') = Len(calls) + 1
             /\ WellFormed(calls'[Len(calls')].request) )
           => /\ calls'[Len(calls')].result = "NotAuthenticated"
              /\ NoNetworkCall(calls'[Len(calls')])
              /\ ~crashed' ]_vars

(* C3: a request with no messages, or whose last message is blank after      *)
(* trimming, is answered with EmptyPrompt and no network call (stated of     *)
(* the calls that found a token and whose spawned task has run).             *)
C3_EmptyOrBlankIsEmptyPrompt ==
    \A c \in DOMAIN calls :
        (/\ calls[c].request = <<>> \/ LastIsBlank(calls[c].request)
         /\ calls[c].pc # "spawned"
         /\ calls[c].result # "Panic") =>
            /\ calls[c].result = "EmptyPrompt"
            /\ NoNetworkCall(calls[c])

(* C4: the validation rules apply in order, first failure wins: a request    *)
(* whose last message is not from the user is answered with                  *)
(* LastMessageMustBeUser and no network call when its trimmed content is     *)
(* non-empty, and with EmptyPrompt when its trimmed content is empty.        *)
C4_FirstFailureWins ==
    \A c \in DOMAIN calls :
        LastIsNotUser(calls[c].request) =>
            /\ NoNetworkCall(calls[c])
            /\ calls[c].pc = "done"
            /\ calls[c].result =
                  IF LastIsBlank(calls[c].request)
                  THEN "EmptyPrompt"
                  ELSE "LastMessageMustBeUser"

C4_Witness ==
    \E c \in DOMAIN calls :
        /\ Len(calls[c].request) = 2
        /\ LastIsNotUser(calls[c].request)
        /\ LastIsBlank(calls[c].request)
        /\ calls[c].request[1].role = "User"
        /\ ~LastIsBlank(<<calls[c].request[1]>>)
        /\ calls[c].result = "EmptyPrompt"

KeyCheckedStep(c) ==
    /\ calls[c].pc = "spawned"
    /\ calls'[c].pc \in {"refreshing", "requesting"}

RefreshFailedStep(c) ==
    /\ calls[c].pc = "refreshing"
    /\ calls'[c].result = "RefreshFailed"

RefreshedStep(c) ==
    /\ calls[c].pc = "refreshing"
    /\ calls'[c].pc = "requesting"

(* C5: a call whose snapshot holds a key with at least five minutes left     *)
(* when it is checked (exactly five included) makes no token-endpoint call   *)
(* and streams with that key; with less than five minutes left, or with no   *)
(* key in the snapshot, it makes exactly one token-endpoint call.  The       *)
(* count is settled by the check: no later step changes it.                  *)
C5_RefreshThreshold ==
    [][ \A c \in DOMAIN calls :
           LET k == calls[c].api_key IN
           /\ KeyCheckedStep(c) =>
                 /\ IsSome(calls[c].oauth_token)
                 /\ IF IsSome(k) /\ Unwrap(k).expires_at - now >= FiveMinutes
                    THEN /\ calls'[c].token_calls = 0
                         /\ calls'[c].stream_calls = 1
                         /\ calls'[c].bearer = Some(Unwrap(k).value)
                    ELSE /\ calls'[c].token_calls = 1
                         /\ calls'[c].stream_calls = 0
           /\ ~KeyCheckedStep(c) =>
                 calls'[c].token_calls = calls[c].token_calls ]_vars

C5_Witness ==
    \E c, d \in DOMAIN calls :
        /\ calls[c].pc = "requesting"
        /\ calls[c].token_calls = 0
        /\ IsSome(api_key)
        /\ calls[c].bearer = Some(Unwrap(api_key).value)
        /\ Unwrap(api_key).expires_at - now = FiveMinutes
        /\ calls[d].token_calls = 1

(* C6: the step in which a refresh fails leaves oauth_token and api_key as   *)
(* they were, and a call that checks its key after some refresh has failed   *)
(* and finds it missing or expiring makes a token-endpoint call of its own.  *)
C6_FailedRefreshKeepsStore ==
    [][ \A c \in DOMAIN calls :
           /\ RefreshFailedStep(c) => UNCHANGED storeVars
           /\ ( /\ KeyCheckedStep(c)
                /\ \E d \in DOMAIN calls : calls[d].result = "RefreshFailed"
                /\ \/ IsNone(calls[c].api_key)
                   \/ Unwrap(calls[c].api_key).expires_at - now < FiveMinutes )
              => /\ calls'[c].pc = "refreshing"
                 /\ calls'[c].token_calls = 1 ]_vars

C6_Witness ==
    /\ Len(calls) = 2
    /\ calls[1].result = "Stream"
    /\ calls[1].token_calls = 1
    /\ calls[2].result = "RefreshFailed"
    /\ IsSome(api_key)
    /\ calls[1].bearer = Some(Unwrap(api_key).value)
    /\ Unwrap(api_key).expires_at - now < FiveMinutes

(* C7: the step in which a refresh succeeds writes the pair the token        *)
(* endpoint returned to the store before the completion request goes out,    *)
(* and that request carries the value just stored.                           *)
C7_RefreshedKeyIsStoredAndUsed ==
    [][ \A c \in DOMAIN calls :
           RefreshedStep(c) =>
              /\ \E life \in Lifetimes :
                    api_key' = Some(Key(issued', now + life))
              /\ issued' = issued + 1
              /\ calls'[c].bearer = Some(Unwrap(api_key').value)
              /\ calls'[c].stream_calls = 1
              /\ \E i, j \in DOMAIN calls'[c].stages :
                    /\ i < j
                    /\ calls'[c].stages[i] = "store_key"
                    /\ calls'[c].stages[j] = "stream_call" ]_vars

C7_Witness ==
    \E c, d \in DOMAIN calls :
        /\ c # d
        /\ calls[d].token_calls = 1
        /\ IsSome(calls[d].bearer)
        /\ calls[c].pc = "requesting"
        /\ calls[c].token_calls = 1
        /\ IsSome(api_key)
        /\ calls[c].bearer = Some(Unwrap(api_key).value)
        /\ calls[c].bearer # calls[d].bearer

StageOf(event) ==
    CASE event = "validate"    -> 1
      [] event = "translate"   -> 2
      [] event = "read_store"  -> 3
      [] event = "token_call"  -> 3
      [] event = "store_key"   -> 3
      [] event = "stream_call" -> 4

Occurs(event, stages) == \E i \in DOMAIN stages : stages[i] = event

(* What the two validations of stream_completion let through. *)
PassesValidation(messages) ==
    ~LastIsBlank(messages) /\ ~LastIsNotUser(messages)

(* C8: the stages of a call run in the order validate, translate,            *)
(* ensure-valid-key, stream, each at most once and none after a failure: a   *)
(* completion request goes out only after the validation passed and a key    *)
(* was obtained, and never after a failed refresh.                           *)
C8_StagesShortCircuit ==
    \A c \in DOMAIN calls :
        LET call == calls[c] IN
        /\ \A i, j \in DOMAIN call.stages :
              i < j =>
                 /\ StageOf(call.stages[i]) <= StageOf(call.stages[j])
                 /\ call.stages[i] # call.stages[j]
        /\ call.stages[1] = "validate"
        /\ call.stream_calls = IF Occurs("stream_call", call.stages) THEN 1 ELSE 0
        /\ call.token_calls = IF Occurs("token_call", call.stages) THEN 1 ELSE 0
        /\ call.stream_calls > 0 =>
              /\ PassesValidation(call.request)
              /\ call.stages[Len(call.stages)] = "stream_call"
              /\ Occurs("translate", call.stages)
              /\ Occurs("read_store", call.stages)
              /\ IsSome(call.bearer)
              /\ call.token_calls = 1 => Occurs("store_key", call.stages)
        /\ call.result = "RefreshFailed" =>
              /\ call.stream_calls = 0
              /\ call.pc = "done"
              /\ ~Occurs("store_key", call.stages)
        /\ call.result \in {"EmptyPrompt", "LastMessageMustBeUser"} =>
              /\ NoNetworkCall(call)
              /\ call.stages = <<"validate">>
              /\ call.pc = "done"
        /\ call.result = "Panic" => NoNetworkCall(call) /\ call.pc = "done"
        /\ call.result = "StreamFailed" => call.pc = "done"

C8_Witness ==
    \E c, d \in DOMAIN calls :
        /\ calls[c].result = "RefreshFailed"
        /\ calls[c].stages = <<"validate", "translate", "read_store", "token_call">>
        /\ calls[d].result = "Stream"
        /\ calls[d].stages = <<"validate", "translate", "read_store",
                               "token_call", "store_key", "stream_call">>

EndOfStreamFrame == Frame(<<>>, TRUE)

(* C9: an error element is always the last element of the output: after an   *)
(* error is yielded nothing more is yielded, whatever arrives afterwards.    *)
C9_ErrorIsLast ==
    \A i \in DOMAIN output : ~output[i].ok => i = Len(output)

CancelledStep(c) ==
    /\ calls[c].pc # "done"
    /\ calls'[c].result = "Cancelled"

(* C11: under every interleaving of calls, pushes, sign-outs and             *)
(* cancellations the stored key is absent or a pair the token endpoint       *)
(* returned in one successful response: a step that changes api_key either   *)
(* clears it or is the successful refresh of one call writing the value and  *)
(* the expiry of that one response together, and a step that cancels a call, *)
(* a refresh in flight included, leaves the stored pair as it was.           *)
C11_StoredPairIsNeverTorn ==
    [][ /\ api_key' # api_key =>
              \/ api_key' = None
              \/ \E c \in DOMAIN calls : \E life \in Lifetimes :
                    /\ RefreshedStep(c)
                    /\ api_key' = Some(Key(issued + 1, now + life))
                    /\ issued' = issued + 1
        /\ \A c \in DOMAIN calls :
              CancelledStep(c) => UNCHANGED storeVars ]_vars

C11_Witness ==
    \E c, d \in DOMAIN calls :
        /\ calls[c].result = "Cancelled"
        /\ calls[c].token_calls = 1
        /\ calls[c].stream_calls = 0
        /\ calls[d].token_calls = 1
        /\ IsSome(api_key)
        /\ calls[d].bearer = Some(Unwrap(api_key).value)

(* A step in which authenticate has returned (or panicked). *)
AuthenticateStep ==
    /\ facade' # facade
    /\ facade'.op = "authenticate"

(* C12: authenticate returns success when the token is present, without      *)
(* reading the status of the Copilot global; whenever the token is absent it *)
(* returns an error, whichever status the Copilot global reports; in neither *)
(* case does it change oauth_token or api_key.                               *)
C12_AuthenticateFollowsToken ==
    [][ AuthenticateStep =>
           /\ IsSome(oauth_token) =>
                 /\ facade'.result = "Ok"
                 /\ facade'.status = "NotRead"
           /\ (IsNone(oauth_token) /\ facade'.status \in Statuses) =>
                 facade'.result # "Ok"
           /\ UNCHANGED storeVars ]_vars

(* A step of reset_credentials: its synchronous head, or the end of its task. *)
ResetStep == reset' # reset

(* C13: reset_credentials invokes the sign-out first and clears the store    *)
(* only after the sign-out succeeded: a reset ends with Ok only from a       *)
(* pending sign-out, and that step leaves oauth_token and api_key absent;    *)
(* the step that starts the sign-out, a reset refused because the Copilot    *)
(* global is unset and a failed sign-out leave both fields as they were.     *)
C13_ResetClearsOnlyAfterSignOut ==
    [][ ResetStep =>
           /\ reset'.result = "Ok" =>
                 /\ reset.pc = "signing_out"
                 /\ oauth_token' = None
                 /\ api_key' = None
           /\ reset'.result # "Ok" => UNCHANGED storeVars
           /\ reset'.result \in {"Ok", "Pending", "Unavailable", "SignOutFailed"}
           /\ reset'.result = "SignOutFailed" => reset.pc = "signing_out"
           /\ reset'.result = "Unavailable" => reset.pc = "idle" ]_vars

C13_Witness ==
    /\ reset.result = "SignOutFailed"
    /\ IsSome(oauth_token)
    /\ IsSome(api_key)

(* C14: a stream_completion call is single-attempt: it never has more than   *)
(* one token-endpoint call and one completion-endpoint call to its name, a   *)
(* step issues at most one request, and once the call has ended, with a      *)
(* failure or otherwise, nothing about it changes: no request is re-issued.  *)
C14_SingleAttempt ==
    [][ /\ \A c \in DOMAIN calls' :
              /\ calls'[c].token_calls <= 1
              /\ calls'[c].stream_calls <= 1
        /\ \A c \in DOMAIN calls :
              /\ calls'[c].token_calls >= calls[c].token_calls
              /\ calls'[c].stream_calls >= calls[c].stream_calls
              /\ calls'[c].token_calls + calls'[c].stream_calls
                    <= calls[c].token_calls + calls[c].stream_calls + 1
              /\ calls[c].pc = "done" => calls'[c] = calls[c] ]_vars

C14_Witness ==
    \E c, d \in DOMAIN calls :
        /\ calls[c].result = "RefreshFailed"
        /\ calls[c].token_calls = 1
        /\ calls[c].stream_calls = 0
        /\ calls[d].result = "StreamFailed"
        /\ calls[d].token_calls = 1
        /\ calls[d].stream_calls = 1

(* C15: the translation keeps the message sequence: the wire request of a    *)
(* call has as many messages as the request, the i-th wire message carries   *)
(* the content of the i-th message, and its role is the wire role of the     *)
(* same name (User to User, Assistant to Assistant, System to System).       *)
C15_TranslationPreservesMessages ==
    \A c \in DOMAIN calls :
        IsSome(calls[c].wire_request) =>
           LET m == calls[c].request
               w == Unwrap(calls[c].wire_request)
           IN /\ Len(w) = Len(m)
              /\ \A i \in DOMAIN m :
                    /\ w[i].content = m[i].content
                    /\ m[i].role = "User" => w[i].role = "CopilotChatRole::User"
                    /\ m[i].role = "Assistant" =>
                          w[i].role = "CopilotChatRole::Assistant"
                    /\ m[i].role = "System" =>
                          w[i].role = "CopilotChatRole::System"

C15_Witness ==
    \E c \in DOMAIN calls :
        /\ Len(calls[c].request) = 4
        /\ \A i \in 1..4 :
              calls[c].request[i].role = <<"User", "Assistant", "System", "User">>[i]
        /\ IsSome(calls[c].wire_request)
        /\ \A i \in 1..4 :
              Unwrap(calls[c].wire_request)[i].role =
                 <<"CopilotChatRole::User", "CopilotChatRole::Assistant",
                   "CopilotChatRole::System", "CopilotChatRole::User">>[i]

(* The contents of the first choices of the frames of w that have choices,  *)
(* in arrival order.                                                         *)
RECURSIVE FirstChoiceContents(_)
FirstChoiceContents(w) ==
    IF w = <<>> THEN <<>>
    ELSE LET ev == w[Len(w)]
             before == FirstChoiceContents(SubSeq(w, 1, Len(w) - 1))
         IN IF ev.kind = "frame" /\ ev.choices # <<>>
            THEN Append(before, Head(ev.choices).content)
            ELSE before

(* The text deltas among the elements of out, in order. *)
RECURSIVE TextDeltas(_)
TextDeltas(out) ==
    IF out = <<>> THEN <<>>
    ELSE LET e == out[Len(out)]
             before == TextDeltas(SubSeq(out, 1, Len(out) - 1))
         IN IF e.ok THEN Append(before, Some(e.value)) ELSE before

(* C16: the adapter maps frames to elements one by one in arrival order: a   *)
(* step adds at most one element, at the end of the output, and that element *)
(* derives from the frame that has just arrived (a text delta is the content *)
(* of its first choice; an error comes from a transport error or a frame     *)
(* without choices); and when an error element is added, the text deltas     *)
(* before it are exactly the first-choice contents of the frames before it.  *)
C16_ElementsFollowFrames ==
    [][ /\ Len(output') <= Len(output) + 1
        /\ SubSeq(output', 1, Len(output)) = output
        /\ Len(output') <= Len(wire')
        /\ output' # output =>
              /\ Len(wire') = Len(wire) + 1
              /\ LET e == output'[Len(output')]
                     ev == wire'[Len(wire')]
                 IN /\ e.ok =>
                          /\ ev.kind = "frame"
                          /\ ev.choices # <<>>
                          /\ Some(e.value) = Head(ev.choices).content
                    /\ ~e.ok =>
                          /\ ev.kind = "error" \/ ev.choices = <<>>
                          /\ TextDeltas(output) = FirstChoiceContents(wire) ]_vars

C16_Witness ==
    /\ Len(wire) = 3
    /\ Len(wire[1].choices) = 2
    /\ wire[1].choices[1].content # wire[1].choices[2].content
    /\ Len(output) = 3
    /\ output[1].ok
    /\ output[2].ok
    /\ ~output[3].ok
    /\ TextDeltas(output) = FirstChoiceContents(wire)

(* C17: a frame with choices whose first choice has no content is surfaced   *)
(* as an error element of the output: once such a frame has arrived, the     *)
(* last element of the output is an error and nothing has panicked.          *)
C17_AbsentContentIsErrorElement ==
    (wire # <<>> /\ AdapterPanics(wire[Len(wire)])) =>
        /\ ~crashed
        /\ output # <<>>
        /\ ~output[Len(output)].ok

(* C18: concurrent refreshes are not deduplicated.  A call that checks a     *)
(* snapshot with a missing or expiring key while another call's refresh is   *)
(* in flight issues a token-endpoint call of its own; a refresh that         *)
(* succeeds gives its call a key no other call streams with, leaves the      *)
(* other calls (their refreshes in flight included) as they were, and        *)
(* writes its pair to the store over whatever an earlier refresh wrote.      *)
C18_ConcurrentRefreshesNotDeduplicated ==
    [][ \A c \in DOMAIN calls :
           /\ ( /\ KeyCheckedStep(c)
                /\ \E d \in DOMAIN calls : d # c /\ calls[d].pc = "refreshing"
                /\ \/ IsNone(calls[c].api_key)
                   \/ Unwrap(calls[c].api_key).expires_at - now < FiveMinutes )
              => /\ calls'[c].pc = "refreshing"
                 /\ calls'[c].token_calls = 1
           /\ RefreshedStep(c) =>
                 /\ issued' = issued + 1
                 /\ calls'[c].bearer = Some(issued')
                 /\ \A d \in DOMAIN calls :
                       d # c => /\ calls'[d] = calls[d]
                                /\ calls'[d].bearer # calls'[c].bearer
                 /\ IsSome(api_key')
                 /\ Unwrap(api_key').value = issued' ]_vars

(* Two calls were made before either refresh had completed, the later call   *)
(* got its key first, and the store holds the pair of the refresh that       *)
(* completed last.                                                           *)
C18_Witness ==
    /\ Len(calls) = 2
    /\ calls[1].token_calls = 1
    /\ calls[2].token_calls = 1
    /\ calls[2].bearer = Some(1)
    /\ calls[1].bearer = Some(2)
    /\ calls[1].stream_calls = 1
    /\ calls[2].stream_calls = 1
    /\ IsSome(api_key)
    /\ Unwrap(api_key).value = 2

(* C19, as stated: a successful refresh with the token still present leaves  *)
(* a key with at least five minutes remaining in the store.                  *)
C19_RefreshYieldsValidKey ==
    [][ \A c \in DOMAIN calls :
           (RefreshedStep(c) /\ IsSome(oauth_token')) =>
              /\ IsSome(api_key')
              /\ Unwrap(api_key').expires_at - now' >= FiveMinutes ]_vars

(* A step in which stream_completion is called and spawns its task. *)
CallSpawnedStep ==
    /\ Len(calls') = Len(calls) + 1
    /\ calls'[Len(calls')].pc = "spawned"

(* C19, amended: a successful refresh leaves the pair the token endpoint     *)
(* returned in the store, whatever its expiry; a call made while that pair   *)
(* is in the store takes it as its snapshot, and makes no token-endpoint     *)
(* call exactly when the pair has at least five minutes remaining at the     *)
(* time the call checks it.                                                  *)
C19_RefreshedKeyServesNextCall ==
    [][ /\ \A c \in DOMAIN calls :
              /\ RefreshedStep(c) =>
                    \E life \in Lifetimes :
                       /\ api_key' = Some(Key(issued + 1, now + life))
                       /\ (Unwrap(api_key').expires_at - now' >= FiveMinutes)
                             <=> (life >= FiveMinutes)
              /\ (KeyCheckedStep(c) /\ IsSome(calls[c].api_key)) =>
                    (calls'[c].token_calls = 0)
                       <=> (Unwrap(calls[c].api_key).expires_at - now
                               >= FiveMinutes)
        /\ CallSpawnedStep => calls'[Len(calls')].api_key = api_key ]_vars

C19_Witness ==
    /\ Len(calls) = 2
    /\ calls[1].token_calls = 1
    /\ calls[1].stream_calls = 1
    /\ IsSome(oauth_token)
    /\ IsSome(api_key)
    /\ calls[1].bearer = Some(Unwrap(api_key).value)
    /\ Unwrap(api_key).expires_at - now >= FiveMinutes
    /\ calls[2].token_calls = 0
    /\ calls[2].stream_calls = 1
    /\ calls[2].bearer = calls[1].bearer

(* A step in which the CopilotChat observer copies a new token: the token    *)
(* changes and nothing else in the provider does.                            *)
TokenPushStep ==
    /\ oauth_token' # oauth_token
    /\ UNCHANGED <<calls, reset, facade, issued, now, crashed>>
    /\ UNCHANGED streamVars

(* A step in which the sign-out of reset_credentials has succeeded. *)
SignedOutStep ==
    /\ reset.pc = "signing_out"
    /\ reset'.result = "Ok"

(* A step in which stream_completion returns a validation error. *)
ValidationFailedStep ==
    /\ Len(calls') = Len(calls) + 1
    /\ calls'[Len(calls')].result \in {"EmptyPrompt", "LastMessageMustBeUser"}

(* A step in which a call goes on with the key of its snapshot. *)
ServedFromCacheStep(c) ==
    /\ KeyCheckedStep(c)
    /\ calls'[c].pc = "requesting"

(* C20: oauth_token and api_key change in three ways only: a token push      *)
(* changes the token and leaves the key, a successful refresh changes the    *)
(* key and leaves the token, a successful sign-out clears both.  Every other *)
(* step leaves both as they were: a validation failure, a call served from   *)
(* its cached key, a failed refresh, a lost call, the receipt of a frame,    *)
(* authenticate, is_authenticated and provided_models.                       *)
C20_StoreChangesInThreeWays ==
    [][ /\ storeVars' # storeVars =>
              \/ /\ TokenPushStep
                 /\ api_key' = api_key
              \/ /\ \E c \in DOMAIN calls : RefreshedStep(c)
                 /\ api_key' # api_key
                 /\ oauth_token' = oauth_token
              \/ /\ SignedOutStep
                 /\ oauth_token' = None
                 /\ api_key' = None
        /\ ValidationFailedStep => UNCHANGED storeVars
        /\ \A c \in DOMAIN calls :
              (ServedFromCacheStep(c) \/ RefreshFailedStep(c) \/ CancelledStep(c))
                 => UNCHANGED storeVars
        /\ streamVars' # streamVars => UNCHANGED storeVars
        /\ facade' # facade => UNCHANGED storeVars ]_vars

(* A session in which a refresh, a call served from the cached key, a        *)
(* failed sign-out, a received frame and a facade query have all happened    *)
(* and the store still holds the token and the refreshed key.                *)
C20_Witness ==
    /\ Len(calls) = 2
    /\ calls[1].token_calls = 1
    /\ calls[1].result = "Stream"
    /\ calls[2].token_calls = 0
    /\ calls[2].stream_calls = 1
    /\ output # <<>>
    /\ facade.op = "authenticate"
    /\ reset.result = "SignOutFailed"
    /\ IsSome(oauth_token)
    /\ IsSome(api_key)
    /\ calls[1].bearer = Some(Unwrap(api_key).value)

====
